---- MODULE Spec2Model ----
(***************************************************************************)
(* Model of .github/scripts/update_streak.py: the daily streak updater.    *)
(*                                                                         *)
(* A date string "YYYY-MM-DD" of the year 2024 is modelled by the number   *)
(* MM*100+DD (so "2024-01-31" is 131 and "2024-02-01" is 201): the order   *)
(* of the zero-padded strings is the order of these numbers.  A date       *)
(* object is modelled by its ordinal, the day of the year 2024 (1 is       *)
(* January 1st); ordinals below 1 are days of 2023.  to_date and today_str *)
(* convert between the two, as strptime and strftime do.                   *)
(***************************************************************************)
EXTENDS Integers, Sequences, FiniteSets, TLC

VARIABLES
    clock,          \* the UTC calendar day datetime.utcnow() falls on (ordinal)
    pc,             \* position of the process in main()
    error,          \* the exception that ended the run, "none" otherwise
    dataFile,       \* content of streak_data.json
    report,         \* content of STREAK.md
    data,           \* main's local `data`
    t_created,      \* what today_str() returned in load_data (0: not called)
    t_add,          \* `t` of add_today_if_missing (0: not yet read)
    calcIn,         \* argument of the last calculate_streak call
    calcToday,      \* `today` read by the last calculate_streak call (0: none)
    calcOut,        \* (current, longest) returned by the last calculate_streak call
    current,        \* main's local `current`
    longest,        \* main's local `longest`
    t_default,      \* today_str() evaluated at line 154 (0: not yet)
    t_updated,      \* `last_updated` of render_streak_md (0: not yet)
    t_cal,          \* `today` of make_calendar_block (0: not yet)
    new_md,         \* main's local `new_md`
    changed,        \* main's local `changed`: "unset", "yes", "no"
    runs,           \* number of runs of main() started so far
    startData,      \* streak_data.json as the current run found it
    startReport,    \* STREAK.md as the current run found it
    startClock,     \* clock when the current run started (0: no run yet)
    prevClock,      \* clock when the previous run started (0: none)
    firstData       \* streak_data.json before the first run

vars ==
    <<clock, pc, error, dataFile, report, data, t_created, t_add, calcIn,
      calcToday, calcOut, current, longest, t_default, t_updated, t_cal,
      new_md, changed, runs, startData, startReport, startClock, prevClock,
      firstData>>

----------------------------------------------------------------------------
(* Bounds of the model *)

\* the day of the first possible run: January 31st
FirstDay ==
    31

\* the clock stops advancing at this ordinal
LastDay ==
    34

\* number of runs of main() explored
MaxRuns ==
    3

\* longest list handed to calculate_streak by the function harness
MaxLen ==
    4

\* days the harness draws dates and `today` from: FirstDay-2 .. FirstDay+HarnessSpan
HarnessSpan ==
    2

----------------------------------------------------------------------------
(* Calendar arithmetic: datetime.strptime / strftime with DATE_FMT *)

DaysInMonth ==
    <<31, 29, 31, 30, 31, 30, 31, 31, 30, 31, 30, 31>>

RECURSIVE DaysBefore(_)
DaysBefore(m) ==
    IF m = 1 THEN 0 ELSE DaysBefore(m - 1) + DaysInMonth[m - 1]

\* strptime(s, "%Y-%m-%d") succeeds
IsDateStr(s) ==
    /\ (s \div 100) \in 1..12
    /\ (s % 100) \in 1..DaysInMonth[s \div 100]

to_date(s) ==
    DaysBefore(s \div 100) + (s % 100)

\* strftime of the UTC day `c`
today_str(c) ==
    LET m == CHOOSE k \in 1..12 : DaysBefore(k) < c /\ c <= DaysBefore(k) + DaysInMonth[k]
    IN  m * 100 + (c - DaysBefore(m))

\* date.weekday(): Monday is 0; January 1st 2024 is a Monday
weekday(d) ==
    (d - 1 + 7 * 100) % 7

----------------------------------------------------------------------------
(* Helpers on sequences and sets *)

Range(s) ==
    {s[i] : i \in 1..Len(s)}

MinOf(S) ==
    CHOOSE x \in S : \A y \in S : x <= y

max(a, b) ==
    IF b > a THEN b ELSE a

RECURSIVE SortedSeqOf(_)
SortedSeqOf(S) ==
    IF S = {} THEN <<>>
    ELSE LET m == MinOf(S) IN <<m>> \o SortedSeqOf(S \ {m})

\* sorted(xs): duplicates are kept
sorted(xs) ==
    SortSeq(xs, LAMBDA a, b : a < b)

----------------------------------------------------------------------------
(* normalize_dates, calculate_streak *)

\* faulty variant: sorted(dates), without set()
normalize_dates_keepdups(dates) ==
    sorted(dates)

normalize_dates(dates) ==
    SortedSeqOf(Range(dates))

\* the loop of lines 74-80: returns <<current_chain, longest>>
RECURSIVE StreakLoop(_, _, _, _)
StreakLoop(dates, i, current_chain, lng) ==
    IF i > Len(dates) THEN <<current_chain, lng>>
    ELSE LET chain == IF dates[i] - dates[i - 1] = 1 THEN current_chain + 1 ELSE 1
         IN  StreakLoop(dates, i + 1, chain, IF chain > lng THEN chain ELSE lng)

\* a to_date of line 70 raises ValueError
calculate_streak_raises(dates_str) ==
    \E i \in 1..Len(dates_str) : ~IsDateStr(dates_str[i])

\* faulty variant: without the elif of lines 87-88
calculate_streak_nograce(dates_str, today) ==
    IF dates_str = <<>> THEN <<0, 0>>
    ELSE LET dates == sorted([i \in 1..Len(dates_str) |-> to_date(dates_str[i])])
             loop == StreakLoop(dates, 2, 1, 1)
             last == dates[Len(dates)]
         IN  <<IF last = today THEN loop[1] ELSE 0, loop[2]>>

\* `today` is what line 82 reads from the clock
calculate_streak(dates_str, today) ==
    IF dates_str = <<>> THEN <<0, 0>>
    ELSE LET dates == sorted([i \in 1..Len(dates_str) |-> to_date(dates_str[i])])
             loop == StreakLoop(dates, 2, 1, 1)
             last == dates[Len(dates)]
             cur == IF last = today THEN loop[1]
                    ELSE IF last = today - 1 THEN loop[1]
                    ELSE 0
         IN  <<cur, loop[2]>>

----------------------------------------------------------------------------
(* The JSON document of streak_data.json.  `kind` is "absent" (no file),   *)
(* "garbage" (json.load raises), "nonobject" (valid JSON that is no        *)
(* object, such as []) or "object".  An object holds `dates` (date         *)
(* strings, valid or not), `longest` with `ltype` "int", "str" (a JSON     *)
(* string) or "missing" (no "longest_streak" key), and `created` when      *)
(* `hasCreated`.                                                           *)

Obj(dates, lng, ltype, created, hasCreated) ==
    [dates |-> dates, longest |-> lng, ltype |-> ltype,
     created |-> created, hasCreated |-> hasCreated]

NoObj ==
    Obj(<<>>, 0, "missing", 0, FALSE)

File(kind, obj) ==
    [kind |-> kind, obj |-> obj]

\* the dict literal of lines 40-44 and 50-54
FreshRecord(t) ==
    File("object", Obj(<<>>, 0, "int", t, TRUE))

\* faulty variant: created_at is set again on every load
load_data_recreate(file, t) ==
    IF file.kind = "object"
    THEN File("object", [file.obj EXCEPT !.created = t, !.hasCreated = TRUE])
    ELSE IF file.kind = "nonobject" THEN file ELSE FreshRecord(t)

\* `t` is what today_str() returns if load_data calls it
load_data(file, t) ==
    IF file.kind = "absent" THEN FreshRecord(t)
    ELSE IF file.kind = "garbage" THEN FreshRecord(t)
    ELSE file

\* load_data takes a branch that calls today_str()
load_data_reads_clock(file) ==
    file.kind \in {"absent", "garbage"}

save_data(d) ==
    File("object", d.obj)

----------------------------------------------------------------------------
(* add_today_if_missing, lines 96-104 *)

\* lines 98-99
append_today(dates, t) ==
    IF t \notin Range(dates) THEN Append(dates, t) ELSE dates

\* data.get("longest_streak", 0)
get_longest_streak(obj) ==
    IF obj.ltype = "missing" THEN 0 ELSE obj.longest

\* faulty variant: the stored value is overwritten by the computed one
update_longest_streak_overwrite(loaded, lng) ==
    lng

\* faulty variant: the stored value is never raised
update_longest_streak_keep(loaded, lng) ==
    loaded

\* line 103: max(data.get("longest_streak", 0), longest)
update_longest_streak(loaded, lng) ==
    max(loaded, lng)

----------------------------------------------------------------------------
(* The text of STREAK.md, a sequence of tokens <<tag, a, b>>.  The static  *)
(* text between the interpolated values is left out, except for the title, *)
(* the footer and the newline that ends the document; "nl" and "sp" are    *)
(* the whitespace that str.strip() removes.                                *)

Tok(tag, a, b) ==
    <<tag, a, b>>

IsSpace(tok) ==
    tok[1] \in {"nl", "sp"}

RECURSIVE lstrip(_)
lstrip(s) ==
    IF s # <<>> /\ IsSpace(s[1]) THEN lstrip(Tail(s)) ELSE s

RECURSIVE rstrip(_)
rstrip(s) ==
    IF s # <<>> /\ IsSpace(s[Len(s)]) THEN rstrip(SubSeq(s, 1, Len(s) - 1)) ELSE s

strip(s) ==
    rstrip(lstrip(s))

\* default `width` of make_bar
BarWidth ==
    40

\* int(width * min(1.0, current / longest)), computed on integers (the
\* rounding of the float product is not modelled)
make_bar(cur, lng) ==
    IF lng <= 0 THEN <<Tok("nostreak", 0, 0)>>
    ELSE LET filled == IF cur > 0
                       THEN (BarWidth * (IF cur < lng THEN cur ELSE lng)) \div lng
                       ELSE 0
         IN  <<Tok("bar", filled, BarWidth - filled), Tok("days", cur, lng)>>

\* `months` as render_streak_md passes it
CalendarMonths ==
    4

DaysPerMonth ==
    30

\* `today` is what line 122 reads from the clock
make_calendar_block(dates_str, months, today) ==
    IF dates_str = <<>> THEN <<Tok("noactivity", 0, 0)>>
    ELSE LET dates == {to_date(dates_str[i]) : i \in 1..Len(dates_str)}
             start == today - months * DaysPerMonth
             first == start - ((weekday(start) + 1) % 7)
             n     == today - first + 1
             cells == ((n + 6) \div 7) * 7
             cell(d) == IF d > today THEN "pad"
                        ELSE IF d < start THEN "blank"
                        ELSE IF d \in dates THEN "active" ELSE "inactive"
         IN  <<Tok("heatmap", 0, 0), Tok("weekdays", 0, 0)>>
             \o [i \in 1..cells |-> Tok(cell(first + i - 1), (i - 1) \div 7, (i - 1) % 7)]

\* t_def, t_upd: today_str() at lines 154 and 155; calendar: line 158
render_streak_md(obj, cur, lng, t_def, t_upd, calendar) ==
    <<Tok("title", 0, 0),
      Tok("current", cur, 0),
      Tok("longest", lng, 0),
      Tok("total", Len(obj.dates), 0),
      Tok("since", IF obj.hasCreated THEN obj.created ELSE t_def, 0),
      Tok("updated", t_upd, 0)>>
    \o make_bar(cur, lng)
    \o calendar
    \o <<Tok("footer", 0, 0), Tok("nl", 0, 0)>>

----------------------------------------------------------------------------
(* STREAK.md: read_file and write_if_changed *)

NoReport ==
    [exists |-> FALSE, text |-> <<>>]

ReportText(text) ==
    [exists |-> TRUE, text |-> text]

read_file(f) ==
    IF ~f.exists THEN <<>> ELSE f.text

\* faulty variant: the texts are compared without strip()
differs_exact(old, new_content) ==
    old # new_content

\* faulty variant: the report is written on every run
differs_always(old, new_content) ==
    TRUE

\* the test of line 202
differs(old, new_content) ==
    strip(old) # strip(new_content)

----------------------------------------------------------------------------
(* main() run without the clock advancing, used to build the initial       *)
(* contents of STREAK.md that differ from the coming report by whitespace  *)

Completes(file) ==
    /\ file.kind # "nonobject"
    /\ file.kind = "object" =>
          /\ ~calculate_streak_raises(file.obj.dates)
          /\ file.obj.ltype # "str"

main_report(file, c) ==
    LET t      == today_str(c)
        loaded == load_data(file, t).obj
        dates  == normalize_dates(append_today(loaded.dates, t))
        res    == calculate_streak(dates, c)
        lng    == update_longest_streak(get_longest_streak(loaded), res[2])
        obj    == [loaded EXCEPT !.dates = dates, !.longest = lng, !.ltype = "int"]
    IN  render_streak_md(obj, res[1], lng, t, t,
                         make_calendar_block(dates, CalendarMonths, c))

----------------------------------------------------------------------------
(* Initial states: every content of the two files the model explores       *)

Day(k) ==
    today_str(FirstDay + k)

\* "2024-02-30": matches the form, is no calendar date
BadDateStr ==
    230

InitDates ==
    { <<>>,
      <<Day(-1)>>,
      <<Day(-2), Day(-1)>>,
      <<Day(-1), Day(-2), Day(-1)>>,
      <<Day(-3)>>,
      <<Day(-1), BadDateStr>> }

\* a stored longest_streak above every run the model can build
StoredLongest ==
    9

InitObjects ==
    { Obj(ds, l[1], l[2], c[1], c[2]) :
        ds \in InitDates,
        l \in {<<0, "int">>, <<StoredLongest, "int">>, <<0, "str">>, <<0, "missing">>},
        c \in {<<Day(-3), TRUE>>, <<0, FALSE>>} }

InitDataFiles ==
    {File("absent", NoObj), File("garbage", NoObj), File("nonobject", NoObj)}
    \cup {File("object", o) : o \in InitObjects}

InitReports(file) ==
    {NoReport, ReportText(<<>>), ReportText(<<Tok("stale", 0, 0)>>)}
    \cup (IF Completes(file)
          THEN {ReportText(strip(main_report(file, FirstDay))),
                ReportText(<<Tok("sp", 0, 0)>> \o main_report(file, FirstDay))}
          ELSE {})

NoLocals ==
    /\ data = File("none", NoObj)
    /\ t_created = 0
    /\ t_add = 0
    /\ calcToday = 0
    /\ calcOut = <<0, 0>>
    /\ current = 0
    /\ longest = 0
    /\ t_default = 0
    /\ t_updated = 0
    /\ t_cal = 0
    /\ new_md = <<>>
    /\ changed = "unset"

Init ==
    /\ clock = FirstDay
    /\ pc = "idle"
    /\ error = "none"
    /\ dataFile \in InitDataFiles
    /\ report \in InitReports(dataFile)
    /\ NoLocals
    /\ calcIn = <<>>
    /\ runs = 0
    /\ startData = dataFile
    /\ startReport = report
    /\ startClock = 0
    /\ prevClock = 0
    /\ firstData = dataFile

----------------------------------------------------------------------------
(* The steps of main().  Every read of the clock is a step of its own, so  *)
(* that midnight can pass between two reads.                               *)

\* midnight UTC passes
Tick ==
    /\ clock < LastDay
    /\ clock' = clock + 1
    /\ UNCHANGED <<pc, error, dataFile, report, data, t_created, t_add, calcIn,
                   calcToday, calcOut, current, longest, t_default, t_updated,
                   t_cal, new_md, changed, runs, startData, startReport,
                   startClock, prevClock, firstData>>

\* line 210: a new process starts main() and calls load_data()
LoadData ==
    /\ pc \in {"idle", "done", "crashed"}
    /\ runs < MaxRuns
    /\ runs' = runs + 1
    /\ startData' = dataFile
    /\ startReport' = report
    /\ prevClock' = startClock
    /\ startClock' = clock
    /\ data' = load_data(dataFile, today_str(clock))
    /\ t_created' = IF load_data_reads_clock(dataFile) THEN today_str(clock) ELSE 0
    /\ t_add' = 0
    /\ calcIn' = <<>>
    /\ calcToday' = 0
    /\ calcOut' = <<0, 0>>
    /\ current' = 0
    /\ longest' = 0
    /\ t_default' = 0
    /\ t_updated' = 0
    /\ t_cal' = 0
    /\ new_md' = <<>>
    /\ changed' = "unset"
    /\ error' = "none"
    /\ pc' = "loaded"
    /\ UNCHANGED <<clock, dataFile, report, firstData>>

\* lines 96-97 on a value without .get: AttributeError
AddTodayRaises ==
    /\ pc = "loaded"
    /\ data.kind # "object"
    /\ t_add' = today_str(clock)
    /\ error' = "AttributeError"
    /\ pc' = "crashed"
    /\ UNCHANGED <<clock, dataFile, report, data, t_created, calcIn, calcToday,
                   calcOut, current, longest, t_default, t_updated, t_cal,
                   new_md, changed, runs, startData, startReport, startClock,
                   prevClock, firstData>>

\* lines 96-101
AddToday ==
    /\ pc = "loaded"
    /\ data.kind = "object"
    /\ t_add' = today_str(clock)
    /\ data' = [data EXCEPT
                  !.obj.dates = normalize_dates(append_today(@, today_str(clock)))]
    /\ pc' = "added"
    /\ UNCHANGED <<clock, error, dataFile, report, t_created, calcIn, calcToday,
                   calcOut, current, longest, t_default, t_updated, t_cal,
                   new_md, changed, runs, startData, startReport, startClock,
                   prevClock, firstData>>

\* line 102, calculate_streak raising ValueError at line 70
CalculateRaises ==
    /\ pc = "added"
    /\ calculate_streak_raises(data.obj.dates)
    /\ calcIn' = data.obj.dates
    /\ error' = "ValueError"
    /\ pc' = "crashed"
    /\ UNCHANGED <<clock, dataFile, report, data, t_created, t_add, calcToday,
                   calcOut, current, longest, t_default, t_updated, t_cal,
                   new_md, changed, runs, startData, startReport, startClock,
                   prevClock, firstData>>

\* lines 102-103, max() raising TypeError on a longest_streak that is a string
MaxRaises ==
    /\ pc = "added"
    /\ ~calculate_streak_raises(data.obj.dates)
    /\ data.obj.ltype = "str"
    /\ calcIn' = data.obj.dates
    /\ calcToday' = clock
    /\ calcOut' = calculate_streak(data.obj.dates, clock)
    /\ error' = "TypeError"
    /\ pc' = "crashed"
    /\ UNCHANGED <<clock, dataFile, report, data, t_created, t_add, current,
                   longest, t_default, t_updated, t_cal, new_md, changed, runs,
                   startData, startReport, startClock, prevClock, firstData>>

\* lines 102-104 and the assignment of line 211
Calculate ==
    /\ pc = "added"
    /\ ~calculate_streak_raises(data.obj.dates)
    /\ data.obj.ltype # "str"
    /\ LET res == calculate_streak(data.obj.dates, clock)
           lng == update_longest_streak(get_longest_streak(data.obj), res[2])
       IN  /\ calcOut' = res
           /\ data' = [data EXCEPT !.obj.longest = lng, !.obj.ltype = "int"]
           /\ current' = res[1]
           /\ longest' = lng
    /\ calcIn' = data.obj.dates
    /\ calcToday' = clock
    /\ pc' = "calculated"
    /\ UNCHANGED <<clock, error, dataFile, report, t_created, t_add, t_default,
                   t_updated, t_cal, new_md, changed, runs, startData,
                   startReport, startClock, prevClock, firstData>>

\* line 212
SaveData ==
    /\ pc = "calculated"
    /\ dataFile' = save_data(data)
    /\ pc' = "saved"
    /\ UNCHANGED <<clock, error, report, data, t_created, t_add, calcIn,
                   calcToday, calcOut, current, longest, t_default, t_updated,
                   t_cal, new_md, changed, runs, startData, startReport,
                   startClock, prevClock, firstData>>

\* lines 153-154: the default of data.get("created_at", today_str())
RenderCreated ==
    /\ pc = "saved"
    /\ t_default' = today_str(clock)
    /\ pc' = "render155"
    /\ UNCHANGED <<clock, error, dataFile, report, data, t_created, t_add,
                   calcIn, calcToday, calcOut, current, longest, t_updated,
                   t_cal, new_md, changed, runs, startData, startReport,
                   startClock, prevClock, firstData>>

\* line 155
RenderUpdated ==
    /\ pc = "render155"
    /\ t_updated' = today_str(clock)
    /\ pc' = "render157"
    /\ UNCHANGED <<clock, error, dataFile, report, data, t_created, t_add,
                   calcIn, calcToday, calcOut, current, longest, t_default,
                   t_cal, new_md, changed, runs, startData, startReport,
                   startClock, prevClock, firstData>>

\* lines 157-190 and the assignment of line 214
RenderContent ==
    /\ pc = "render157"
    /\ t_cal' = clock
    /\ new_md' = render_streak_md(data.obj, current, longest, t_default, t_updated,
                     make_calendar_block(data.obj.dates, CalendarMonths, clock))
    /\ pc' = "rendered"
    /\ UNCHANGED <<clock, error, dataFile, report, data, t_created, t_add,
                   calcIn, calcToday, calcOut, current, longest, t_default,
                   t_updated, changed, runs, startData, startReport,
                   startClock, prevClock, firstData>>

\* line 215 (write_if_changed, lines 200-206) and the prints of lines 217-222
WriteIfChanged ==
    /\ pc = "rendered"
    /\ IF differs(read_file(report), new_md)
       THEN /\ report' = ReportText(new_md)
            /\ changed' = "yes"
       ELSE /\ report' = report
            /\ changed' = "no"
    /\ pc' = "done"
    /\ UNCHANGED <<clock, error, dataFile, data, t_created, t_add, calcIn,
                   calcToday, calcOut, current, longest, t_default, t_updated,
                   t_cal, new_md, runs, startData, startReport, startClock,
                   prevClock, firstData>>

Next ==
    \/ Tick
    \/ LoadData
    \/ AddTodayRaises
    \/ AddToday
    \/ CalculateRaises
    \/ MaxRaises
    \/ Calculate
    \/ SaveData
    \/ RenderCreated
    \/ RenderUpdated
    \/ RenderContent
    \/ WriteIfChanged

Spec ==
    Init /\ [][Next]_vars

----------------------------------------------------------------------------
(* calculate_streak on its own: every list of at most MaxLen dates of the  *)
(* days around FirstDay, in any order and with repeats, and every `today`  *)

HarnessDays ==
    (FirstDay - 2)..(FirstDay + HarnessSpan)

RECURSIVE SeqsUpTo(_, _)
SeqsUpTo(S, n) ==
    IF n = 0 THEN {<<>>}
    ELSE LET shorter == SeqsUpTo(S, n - 1)
         IN  shorter \cup {Append(s, x) : s \in shorter, x \in S}

InitCalc ==
    /\ clock \in HarnessDays
    /\ pc = "calc"
    /\ error = "none"
    /\ dataFile = File("absent", NoObj)
    /\ report = NoReport
    /\ NoLocals
    /\ runs = 0
    /\ startData = dataFile
    /\ startReport = report
    /\ startClock = 0
    /\ prevClock = 0
    /\ firstData = dataFile
    /\ calcIn \in SeqsUpTo({today_str(d) : d \in HarnessDays}, MaxLen)

\* a call of calculate_streak while the clock reads `clock`
CallCalculateStreak ==
    /\ pc = "calc"
    /\ calcToday' = clock
    /\ calcOut' = calculate_streak(calcIn, clock)
    /\ pc' = "calc_done"
    /\ UNCHANGED <<clock, error, dataFile, report, data, t_created, t_add,
                   calcIn, current, longest, t_default, t_updated, t_cal,
                   new_md, changed, runs, startData, startReport, startClock,
                   prevClock, firstData>>

NextCalc ==
    CallCalculateStreak

SpecCalc ==
    InitCalc /\ [][NextCalc]_vars

----------------------------------------------------------------------------
(* Vocabulary of the properties, stated on sets of days and independent of *)
(* the loop of calculate_streak                                            *)

MaxOf(S) ==
    CHOOSE x \in S : \A y \in S : y <= x

\* the days a list of valid date strings names
DaysOf(dates_str) ==
    {to_date(dates_str[i]) : i \in 1..Len(dates_str)}

\* length of the longest run of consecutive days in S
LongestRun(S) ==
    IF S = {} THEN 0
    ELSE MaxOf({p[2] - p[1] + 1 :
                  p \in {q \in S \X S : q[1] <= q[2] /\ \A d \in q[1]..q[2] : d \in S}})

\* length of the run of consecutive days of S that ends on day e of S
RunEndingAt(S, e) ==
    MaxOf({k \in 1..Cardinality(S) : \A j \in 0..(k - 1) : (e - j) \in S})

NoRepeats(xs) ==
    Cardinality(Range(xs)) = Len(xs)

StrictlyAscending(xs) ==
    \A i \in 1..(Len(xs) - 1) : xs[i] < xs[i + 1]

\* the run has executed save_data
Saved ==
    pc \in {"saved", "render155", "render157", "rendered", "done"}

\* the run has ended, normally or with an exception
Ended ==
    pc \in {"done", "crashed"}

\* an object with a list of date strings and an integer longest streak
ValidRecord(file) ==
    /\ file.kind = "object"
    /\ \A i \in 1..Len(file.obj.dates) : IsDateStr(file.obj.dates[i])
    /\ file.obj.ltype = "int"

----------------------------------------------------------------------------
(* The properties *)

\* C1: from one run of main() to the next (the file a run finds is the file
\* the previous run left), the stored longest_streak never decreases, also in
\* a run that follows a gap of two or more days.
C1_LongestNeverDecreases ==
    (startData.kind = "object" /\ startData.obj.ltype = "int")
        => /\ dataFile.kind = "object"
           /\ dataFile.obj.ltype = "int"
           /\ dataFile.obj.longest >= startData.obj.longest

\* a second or later run, two or more days after the last stored date, ended
\* with current streak 1 and the longer stored streak kept
C1_Witness ==
    /\ pc = "done"
    /\ runs >= 2
    /\ startData.kind = "object"
    /\ startData.obj.dates # <<>>
    /\ MaxOf(DaysOf(startData.obj.dates)) <= to_date(t_add) - 2
    /\ current = 1
    /\ dataFile.obj.longest >= 2
    /\ dataFile.obj.longest = startData.obj.longest

\* C2: a run of main() that follows another run on the same day (every clock
\* read of both runs gives the same date) leaves streak_data.json and STREAK.md
\* as the first run left them, and its write_if_changed returns False: it never
\* reports a change.  This holds whatever the files held before the first run.
C2_SecondRunSameDayChangesNothing ==
    (Ended /\ runs >= 2 /\ prevClock = clock)
        => /\ dataFile = startData
           /\ report = startReport
           /\ changed # "yes"
           /\ pc = "done" => changed = "no"

\* the second run of a day that started with no files at all has completed
C2_Witness ==
    /\ pc = "done"
    /\ runs >= 2
    /\ prevClock = clock
    /\ firstData.kind = "absent"
    /\ startReport = ReportText(new_md)
    /\ dataFile.kind = "object"
    /\ changed = "no"

\* C3: whatever streak_data.json holds that is not a valid record (no file,
\* unparseable, or parseable but not a record), load_data returns the fresh
\* empty record with created_at = today and the run does not raise.
C3_LoadNeverFailsTheRun ==
    (runs >= 1 /\ ~ValidRecord(startData))
        => /\ pc # "crashed"
           /\ pc = "loaded" => data = FreshRecord(today_str(startClock))

\* C4: at the end of a run the date inserted into dates, the date the current
\* streak was measured against, the last day of the calendar window, the
\* created_at of a fresh record and the last-updated date are the same day.
C4_TodayHeldFixed ==
    pc = "done"
        => /\ calcToday = to_date(t_add)
           /\ t_cal = to_date(t_add)
           /\ t_updated = t_add
           /\ t_created # 0 => t_created = t_add

\* C5: for a list of distinct dates and any today, calculate_streak returns
\* (current, longest): longest is the length of the longest run of consecutive
\* days; current is the length of the run ending at the most recent date when
\* that date is today or the day before, and 0 when it is two or more days
\* before today; no dates give (0, 0); N consecutive days ending today give
\* (N, N).
C5_StreakOfDistinctDates ==
    (pc = "calc_done" /\ NoRepeats(calcIn))
        => LET S == DaysOf(calcIn)
           IN  /\ calcOut[2] = LongestRun(S)
               /\ S = {} => calcOut = <<0, 0>>
               /\ S # {} =>
                    LET last == MaxOf(S)
                    IN  /\ last \in {calcToday, calcToday - 1}
                              => calcOut[1] = RunEndingAt(S, last)
                        /\ last <= calcToday - 2 => calcOut[1] = 0
                        /\ (last = calcToday /\ RunEndingAt(S, last) = Cardinality(S))
                              => calcOut = <<Cardinality(S), Cardinality(S)>>

\* three distinct dates, the most recent one yesterday, ending a run of two
C5_Witness ==
    /\ pc = "calc_done"
    /\ NoRepeats(calcIn)
    /\ Len(calcIn) = 3
    /\ MaxOf(DaysOf(calcIn)) = calcToday - 1
    /\ calcOut = <<2, 2>>

\* C6: for every list of dates, in any order and with repeats, calculate_streak
\* returns what it returns for the deduplicated, ascending list of those dates.
C6_SortsAndDeduplicatesFirst ==
    pc = "calc_done"
        => calcOut = calculate_streak(normalize_dates(calcIn), calcToday)

\* C7: write_if_changed leaves STREAK.md untouched and returns False when the
\* stored text ("" if there is no file) and the new text are equal after
\* stripping surrounding whitespace; otherwise it overwrites STREAK.md with the
\* new text and returns True.
C7_WriteOnlyOnDifference ==
    pc = "done"
        => LET old == IF startReport.exists THEN startReport.text ELSE <<>>
           IN  IF strip(old) = strip(new_md)
               THEN report = startReport /\ changed = "no"
               ELSE report = ReportText(new_md) /\ changed = "yes"

\* a stored report that differs from the new text by whitespace only was
\* left as it was
C7_Witness ==
    /\ pc = "done"
    /\ changed = "no"
    /\ startReport.exists
    /\ startReport.text # new_md
    /\ report = startReport

\* C8: starting from no stored record, the stored created_at is never later
\* than the earliest stored date, and a run that loads an existing record
\* leaves created_at as it was.
C8_CreatedAtSetOnce ==
    (firstData.kind = "absent" /\ dataFile.kind = "object")
        => /\ dataFile.obj.hasCreated
           /\ dataFile.obj.dates # <<>>
                => to_date(dataFile.obj.created) <= MinOf(DaysOf(dataFile.obj.dates))
           /\ startData.kind = "object"
                => dataFile.obj.created = startData.obj.created

\* a later run, on a later day than the one the record was created on, has
\* saved the record
C8_Witness ==
    /\ firstData.kind = "absent"
    /\ pc = "done"
    /\ runs >= 2
    /\ startData.kind = "object"
    /\ to_date(t_add) > to_date(dataFile.obj.created)
    /\ Len(dataFile.obj.dates) >= 2

\* C9: the dates a run writes to streak_data.json are in strictly ascending
\* order, without repeats, and contain the date the run read as today (`t`,
\* line 96), whatever list was loaded.
C9_SavedDatesSortedUnique ==
    Saved
        => /\ dataFile.kind = "object"
           /\ StrictlyAscending(dataFile.obj.dates)
           /\ NoRepeats(dataFile.obj.dates)
           /\ t_add \in Range(dataFile.obj.dates)

\* a run that loaded a list with a repeated, out-of-order entry has saved
C9_Witness ==
    /\ pc = "saved"
    /\ startData.kind = "object"
    /\ ~NoRepeats(startData.obj.dates)
    /\ ~StrictlyAscending(startData.obj.dates)

====
